---- MODULE Spec2Model ----
(***************************************************************************)
(* A model of doc.js (src/doc.js): the loader callbacks of loadBlocks, the *)
(* comment-block extractor parseBlocks with its eighteen tag parsers, the   *)
(* entity assembler makeEntities and the Documentation index.              *)
(*                                                                         *)
(* Text is a sequence of tokens.  A token stands for the characters it is  *)
(* written with: the markers, one blank, one newline, a tag keyword, or a  *)
(* one-letter word in upper case.  No word letter occurs in a marker or a  *)
(* tag keyword, no tag keyword is written directly after another token     *)
(* without a blank or a line start before it, and the texts below never    *)
(* put one tag keyword next to a keyword it is a prefix of, so a search or *)
(* a regular expression over the characters finds exactly what the same    *)
(* search over the tokens finds.                                           *)
(***************************************************************************)
EXTENDS Integers, Sequences, FiniteSets, TLC

NL == "\n"
SP == " "
OPEN == "/**"
CLOSE == "*/"
TRIPLE == "///"
STAR == "*"

TagTokens ==
  {"@author", "@brief", "@class", "@description", "@desc", "@event",
   "@example", "@endexample", "@extends", "@function", "@fn", "@library",
   "@memberof", "@memberOf", "@method", "@page", "@param", "@property",
   "@return", "@returns", "@see", "@todo", "@version"}

\* The token starts with the character '@'.
IsAt(t) == t \in TagTokens
\* The regular expression class \s.
IsWs(t) == t = SP \/ t = NL

\* JavaScript's undefined and false, as values no text can produce.
Undefined == <<"#undefined">>
False == <<"#false">>

Min(S) == CHOOSE x \in S : \A y \in S : x <= y
Max(S) == CHOOSE x \in S : \A y \in S : x >= y

RECURSIVE Ascending(_)
Ascending(S) == IF S = {} THEN <<>> ELSE <<Min(S)>> \o Ascending(S \ {Min(S)})

\* s.substr(0,n); a negative length gives the empty string.
SubstrTo(s, n) == IF n <= 0 THEN <<>> ELSE SubSeq(s, 1, n)
\* s.substr(n)
SubstrFrom(s, n) == IF n >= Len(s) THEN <<>> ELSE SubSeq(s, n + 1, Len(s))

\* needle occurs in hay at the (0-based) offset i
OccursAt(hay, needle, i) ==
  /\ i + Len(needle) <= Len(hay)
  /\ \A k \in 1..Len(needle) : hay[i + k] = needle[k]

\* String.prototype.indexOf: the first offset, or -1
IndexOf(hay, needle) ==
  LET At == {i \in 0..(Len(hay) - Len(needle)) : OccursAt(hay, needle, i)}
  IN IF At = {} THEN -1 ELSE Min(At)

\* (s.match(/\n/g)||[]).length
CountNewlines(s) == Cardinality({i \in 1..Len(s) : s[i] = NL})

\* s.split("\n")
RECURSIVE SplitLines(_)
SplitLines(s) ==
  LET At == {i \in 1..Len(s) : s[i] = NL}
  IN IF At = {} THEN <<s>>
     ELSE <<SubstrTo(s, Min(At) - 1)>> \o SplitLines(SubstrFrom(s, Min(At)))

\* lines.join("\n")
RECURSIVE JoinLines(_)
JoinLines(lines) ==
  IF Len(lines) = 0 THEN <<>>
  ELSE IF Len(lines) = 1 THEN lines[1]
  ELSE lines[1] \o <<NL>> \o JoinLines(Tail(lines))

\* The length of the longest prefix of \s tokens, and of non-\s tokens.
WsRun(s) ==
  LET Stop == {i \in 1..Len(s) : ~IsWs(s[i])}
  IN IF Stop = {} THEN Len(s) ELSE Min(Stop) - 1
NonWsRun(s) ==
  LET Stop == {i \in 1..Len(s) : IsWs(s[i])}
  IN IF Stop = {} THEN Len(s) ELSE Min(Stop) - 1

(***************************************************************************)
(* The tag grammars.  Each operator below is the part of a parser's        *)
(* regular expression that follows the tag keyword, applied to the tokens  *)
(* r that follow the keyword on the line; g1..g3 are the capture groups    *)
(* the parser reads.                                                       *)
(***************************************************************************)
NoMatch == [ok |-> FALSE, g1 |-> Undefined, g2 |-> Undefined, g3 |-> Undefined]
Matched(a, b, c) == [ok |-> TRUE, g1 |-> a, g2 |-> b, g3 |-> c]

\* A group (.*){0,1} or (\s+(.*)){0,1} that matched nothing is undefined.
Optional(s) == IF s = <<>> THEN Undefined ELSE s

\* the text after its leading blanks, its first word, and what follows the word
SkipWs(s) == SubstrFrom(s, WsRun(s))
Word(s) == SubstrTo(s, NonWsRun(s))
AfterWord(s) == SubstrFrom(s, NonWsRun(s))

\* \s+(.*)$        author, brief, library, page, see, version
RestText(r) ==
  IF WsRun(r) >= 1 THEN Matched(SkipWs(r), Undefined, Undefined) ELSE NoMatch

\* \s+([^\s]*)$    class, method, memberof
RestName(r) ==
  IF WsRun(r) >= 1 /\ AfterWord(SkipWs(r)) = <<>>
  THEN Matched(SkipWs(r), Undefined, Undefined)
  ELSE NoMatch

\* \s+([^\s]*)     extends
RestExtends(r) ==
  IF WsRun(r) >= 1 THEN Matched(Word(SkipWs(r)), Undefined, Undefined) ELSE NoMatch

\* \s+([^\s]*)(\s+(.*)){0,1}$     event: g2 is the whole second group
RestEvent(r) ==
  IF WsRun(r) >= 1
  THEN Matched(Word(SkipWs(r)), Optional(AfterWord(SkipWs(r))), Undefined)
  ELSE NoMatch

\* \s+([^\s]+)(\s+(.*))?     function: g2 is the innermost group
RestFunction(r) ==
  IF WsRun(r) >= 1 /\ Word(SkipWs(r)) # <<>>
  THEN Matched(Word(SkipWs(r)),
               IF AfterWord(SkipWs(r)) = <<>> THEN Undefined
               ELSE SkipWs(AfterWord(SkipWs(r))),
               Undefined)
  ELSE NoMatch

\* \s+([^\s]*)\s+([^\s]+)(\s+(.*)){0,1}$     param: g3 is the innermost group.
\* w blanks lead, a follows them, b follows a's first word, c follows b's
\* blanks and d follows c's first word.
ParamGroups(w, a, b, c, d) ==
  IF w >= 1 /\ Word(a) # <<>> /\ WsRun(b) >= 1 /\ Word(c) # <<>>
  THEN Matched(Word(a), Word(c), IF d = <<>> THEN Undefined ELSE SkipWs(d))
  ELSE IF w >= 2 /\ Word(a) # <<>>
  \* the first \s+ gives one blank back, and the data type is empty
  THEN Matched(<<>>, Word(a), IF b = <<>> THEN Undefined ELSE <<>>)
  ELSE NoMatch
RestParam(r) ==
  ParamGroups(WsRun(r), SkipWs(r), AfterWord(SkipWs(r)), SkipWs(AfterWord(SkipWs(r))),
              AfterWord(SkipWs(AfterWord(SkipWs(r)))))

\* \s+([^\s]*)\s+([^\s]*)\s*(.*){0,1}$     property
PropertyGroups(w, a, b, c, d) ==
  IF w >= 1 /\ WsRun(b) >= 1
  THEN Matched(Word(a), Word(c), Optional(SkipWs(d)))
  ELSE IF w >= 2
  \* the first \s+ gives one blank back, and the data type is empty
  THEN Matched(<<>>, Word(a), Undefined)
  ELSE NoMatch
RestProperty(r) ==
  PropertyGroups(WsRun(r), SkipWs(r), AfterWord(SkipWs(r)),
                 SkipWs(AfterWord(SkipWs(r))),
                 AfterWord(SkipWs(AfterWord(SkipWs(r)))))

\* \s+([^\s]*)\s*(.*){0,1}$     return
RestReturn(r) ==
  IF WsRun(r) >= 1
  THEN Matched(Word(SkipWs(r)), Optional(SkipWs(AfterWord(SkipWs(r)))), Undefined)
  ELSE NoMatch

\* (\s+(.*))$     todo: g1 is the outer group, blanks included
RestTodo(r) == IF WsRun(r) >= 1 THEN Matched(r, Undefined, Undefined) ELSE NoMatch


(***************************************************************************)
(* DOCJS.Block.  src is the cleaned text; parsedLines is the array of the  *)
(* line indices marked consumed, in the order they were pushed; cmds holds *)
(* the command arrays block.author .. block.version.                       *)
(***************************************************************************)
ParseOrder ==
  <<"author", "brief", "classs", "desc", "event", "example", "extends", "func",
    "library", "memberof", "method", "page", "param", "property", "ret",
    "see", "todo", "version">>
Kinds == {ParseOrder[i] : i \in 1..Len(ParseOrder)}

\* parseInt of a value that is no number
NaN == -1

Block(id, src, rawSrc, lineNumber) ==
  [id |-> id,
   rawDiff |-> CountNewlines(SubstrTo(rawSrc, IndexOf(rawSrc, src))),
   filename |-> 0,
   src |-> src,
   lineNumber |-> lineNumber,
   parsedLines |-> <<>>,
   cmds |-> [k \in Kinds |-> <<>>]]

localToGlobalLineNumber(b, n) == n + b.lineNumber + b.rawDiff + 1

lineIsParsed(b, n) == n # NaN /\ \E k \in 1..Len(b.parsedLines) : b.parsedLines[k] = n

\* markLineAsParsed without the test lineIsParsed
markLineAlways(b, n) == [b EXCEPT !.parsedLines = Append(@, n)]

markLineAsParsed(b, n) ==
  IF lineIsParsed(b, n) THEN b ELSE [b EXCEPT !.parsedLines = Append(@, n)]

RECURSIVE MarkLines(_, _)
MarkLines(b, ns) ==
  IF ns = <<>> THEN b ELSE MarkLines(markLineAsParsed(b, Head(ns)), Tail(ns))

markChunkAsParsed(b, chunk) ==
  LET idx == IndexOf(b.src, chunk)
      firstLine == CountNewlines(SubstrTo(b.src, idx))
      lastLine == CountNewlines(chunk) + firstLine
  IN IF idx # -1
     THEN MarkLines(b, [k \in 1..(lastLine - firstLine + 1) |-> firstLine + k - 1 + b.rawDiff])
     ELSE b

getNumLines(b) == Len(SplitLines(b.src))
getLine(b, n) == SplitLines(b.src)[n + 1]

\* The keys of getUnparsedLines2(), which a for-in loop visits in ascending order.
UnparsedKeys(b) == {i \in 0..(getNumLines(b) - 1) : ~lineIsParsed(b, i)}

getUnparsedLines(b) ==
  LET ks == Ascending(UnparsedKeys(b))
  IN [k \in 1..Len(ks) |-> getLine(b, ks[k])]

\* getUnparsedLines2(true): global line number => line
getUnparsedLines2(b) ==
  LET ks == Ascending(UnparsedKeys(b))
  IN [k \in 1..Len(ks) |->
        [n |-> localToGlobalLineNumber(b, ks[k]), local |-> ks[k], text |-> getLine(b, ks[k])]]

\* The line of the first match of s in the cleaned text, or false (here NaN,
\* which is what parseInt makes of it).
getLineNumber(b, s) ==
  LET idx == IndexOf(b.src, s)
  IN IF idx # -1 THEN CountNewlines(SubstrTo(b.src, idx)) ELSE NaN

(***************************************************************************)
(* DOCJS.ErrorReport and DOCJS.Command.  what, tag, block and lines stand  *)
(* for the message: which report it is, the tag it names, the block or the *)
(* entity it is about (0: none) and the lines it lists; count is the       *)
(* number of Memberof commands that the report of a property block cites.  *)
(***************************************************************************)
ErrorReport(id, file, lineNumber, what, tag, text, block) ==
  [id |-> id, file |-> file, lineNumber |-> lineNumber, what |-> what,
   tag |-> tag, text |-> text, block |-> block, entity |-> 0, lines |-> <<>>,
   count |-> 0]

\* lines: the lines of the block (local indices) that the text the command
\* was matched on came from; it is not a field of the program's Command.
Command(kind, block, name, dataType, text, lines) ==
  [kind |-> kind, block |-> block, name |-> name, dataType |-> dataType,
   text |-> text, lines |-> lines]

\* The keywords a parser's regular expression starts with, and the keywords
\* its second test (line.match(/@tag/)) finds.
MatchTags(kind) ==
  CASE kind = "author" -> {"@author"}
    [] kind = "brief" -> {"@brief"}
    [] kind = "classs" -> {"@class"}
    [] kind = "desc" -> {"@description", "@desc"}
    [] kind = "event" -> {"@event"}
    [] kind = "example" -> {"@example"}
    [] kind = "extends" -> {"@extends"}
    [] kind = "func" -> {"@function", "@fn"}
    [] kind = "library" -> {"@library"}
    [] kind = "memberof" -> {"@memberof", "@memberOf"}
    [] kind = "method" -> {"@method"}
    [] kind = "page" -> {"@page"}
    [] kind = "param" -> {"@param"}
    [] kind = "property" -> {"@property"}
    [] kind = "ret" -> {"@return", "@returns"}
    [] kind = "see" -> {"@see"}
    [] kind = "todo" -> {"@todo"}
    [] kind = "version" -> {"@version"}

HasTag(kind, line) == \E p \in 1..Len(line) : line[p] \in MatchTags(kind)

Rest(kind, r) ==
  CASE kind \in {"author", "brief", "library", "page", "see", "version"} -> RestText(r)
    [] kind \in {"classs", "method", "memberof"} -> RestName(r)
    [] kind = "extends" -> RestExtends(r)
    [] kind = "event" -> RestEvent(r)
    [] kind = "func" -> RestFunction(r)
    [] kind = "param" -> RestParam(r)
    [] kind = "property" -> RestProperty(r)
    [] kind = "ret" -> RestReturn(r)
    [] kind = "todo" -> RestTodo(r)

\* /(@memberOf)|(@memberof)\s+([^\s]*)$/: the first alternative is the bare
\* keyword @memberOf, and only the second one has the class name's group.
MemberofAt(line, p) ==
  IF line[p] = "@memberOf" THEN Matched(Undefined, Undefined, Undefined)
  ELSE IF line[p] = "@memberof" THEN RestName(SubstrFrom(line, p))
  ELSE NoMatch

MatchAt(kind, line, p) ==
  IF kind = "memberof" THEN MemberofAt(line, p)
  ELSE IF line[p] \in MatchTags(kind) THEN Rest(kind, SubstrFrom(line, p))
  ELSE NoMatch

\* line.match(re): the match at the leftmost position that has one
FirstMatch(kind, line, At) ==
  IF At = {} THEN NoMatch ELSE MatchAt(kind, line, Min(At))
MatchLine(kind, line) ==
  FirstMatch(kind, line, {p \in 1..Len(line) : MatchAt(kind, line, p).ok})

\* new DOCJS.<Kind>Command(block, ...) from the groups of a match
MakeCommand(kind, b, m, j) ==
  CASE kind \in {"author", "brief", "see", "version", "todo"} ->
         Command(kind, b, Undefined, Undefined, m.g1, j)
    [] kind \in {"classs", "method", "memberof", "extends", "library", "page"} ->
         Command(kind, b, m.g1, Undefined, Undefined, j)
    [] kind = "event" ->
         Command(kind, b, m.g1, Undefined, IF m.g2 = Undefined THEN <<>> ELSE m.g2, j)
    [] kind = "func" -> Command(kind, b, m.g1, Undefined, m.g2, j)
    [] kind = "param" ->
         Command(kind, b, m.g2, m.g1,
                 IF m.g3 # Undefined /\ m.g3 # <<>> THEN m.g3 ELSE Undefined, j)
    [] kind = "property" ->
         Command(kind, b, m.g2, m.g1,
                 IF m.g3 # Undefined /\ m.g3 # <<>> THEN m.g2 ELSE Undefined, j)
    [] kind = "ret" -> Command(kind, b, Undefined, m.g1, m.g2, j)

(***************************************************************************)
(* A parser's state: the block it reads and marks, the errors array it     *)
(* pushes to, errorReportIdCounter, and the exception it has thrown.       *)
(***************************************************************************)
\* The sixteen parsers that test each unparsed line on its own:
\* DOCJS.AuthorCommand.parse .. DOCJS.VersionCommand.parse.
\* What the loop finds on the line j: the match m, or the keyword without it.
LineResult(kind, j, line, m) == [j |-> j, m |-> m, bad |-> ~m.ok /\ HasTag(kind, line)]
LineResults(kind, b, ks) ==
  [k \in 1..Len(ks) |->
     LineResult(kind, ks[k], getLine(b, ks[k]), MatchLine(kind, getLine(b, ks[k])))]
IsHit(r) == r.m.ok
IsBad(r) == r.bad
Linewise(kind, ps, hs, bs) ==
  [ps EXCEPT
     !.block = [MarkLines(ps.block, [k \in 1..Len(hs) |-> hs[k].j]) EXCEPT
                  !.cmds[kind] = [k \in 1..Len(hs) |->
                     MakeCommand(kind, ps.block.id, hs[k].m, {hs[k].j})]],
     !.errors = @ \o [k \in 1..Len(bs) |->
                  ErrorReport(ps.errorReportIdCounter + k, ps.block.filename,
                              localToGlobalLineNumber(ps.block, bs[k].j), "malformed",
                              kind, getLine(ps.block, bs[k].j), ps.block.id)],
     !.errorReportIdCounter = @ + Len(bs)]
LinewiseOf(kind, ps, rs) == Linewise(kind, ps, SelectSeq(rs, IsHit), SelectSeq(rs, IsBad))
ParseLinewise(kind, ps) ==
  LinewiseOf(kind, ps, LineResults(kind, ps.block, Ascending(UnparsedKeys(ps.block))))


\* ((.(?!@))*): the longest run of characters, none a newline, none followed by '@'
ContentRun(s) ==
  LET Stop == {i \in 1..Len(s) : s[i] = NL \/ (i < Len(s) /\ IsAt(s[i + 1]))}
  IN IF Stop = {} THEN s ELSE SubstrTo(s, Min(Stop) - 1)

\* The lines of the block that the tokens p..q of its joined unparsed lines lie on.
SpannedLines(b, src, p, q) ==
  LET ks == Ascending(UnparsedKeys(b))
  IN {ks[k + 1] : k \in CountNewlines(SubstrTo(src, p - 1))..CountNewlines(SubstrTo(src, q))}

\* DOCJS.DescriptionCommand.parse:
\* /((@description)|(@desc))\s+((.(?!@))*)/m on the unparsed lines joined
DescriptionParse(ps) ==
  LET b == ps.block
      src == JoinLines(getUnparsedLines(b))
      At == {p \in 1..Len(src) :
               src[p] \in MatchTags("desc") /\ WsRun(SubstrFrom(src, p)) >= 1}
      p == Min(At)
      from == p + WsRun(SubstrFrom(src, p))
      content == ContentRun(SubstrFrom(src, from))
      \* content.split("\n") has one element: the content holds no newline
      n == getLineNumber(b, content)
  IN IF At # {} /\ content # <<>>
     THEN [ps EXCEPT !.block =
             [markLineAsParsed(b, n) EXCEPT !.cmds["desc"] =
                <<Command("desc", b.id, Undefined, Undefined, content,
                          SpannedLines(b, src, p, from + Len(content)))>>]]
     ELSE ps

\* DOCJS.ExampleCommand.parse:
\* /@example(([\s\S](?!(\\@endexample)))*)@endexample/ on the unparsed lines
\* joined.  The lookahead asks for a backslash, which no text here holds, so
\* the group runs to the last @endexample.  The second branch reads j and
\* line, which this function never declares: a ReferenceError.
ExampleParse(ps) ==
  LET b == ps.block
      src == JoinLines(getUnparsedLines(b))
      Ends(p) == {q \in (p + 1)..Len(src) : src[q] = "@endexample"}
      At == {p \in 1..Len(src) : src[p] = "@example" /\ Ends(p) # {}}
      p == Min(At)
      q == Max(Ends(p))
  IN IF At # {}
     THEN [ps EXCEPT !.block =
             [markChunkAsParsed(b, SubSeq(src, p, q)) EXCEPT !.cmds["example"] =
                <<Command("example", b.id, Undefined, Undefined,
                          SubSeq(src, p + 1, q - 1), SpannedLines(b, src, p, q))>>]]
     ELSE IF \E i \in 1..Len(src) : src[i] = "@example"
     THEN [ps EXCEPT !.thrown = "ReferenceError"]
     ELSE ps

\* block.author = DOCJS.AuthorCommand.parse(block,errors); ... one after the
\* other, up to the first that throws
RECURSIVE RunParsers(_, _)
RunParsers(ps, k) ==
  IF k > Len(ParseOrder) \/ ps.thrown # "none" THEN ps
  ELSE RunParsers(CASE ParseOrder[k] = "desc" -> DescriptionParse(ps)
                    [] ParseOrder[k] = "example" -> ExampleParse(ps)
                    [] OTHER -> ParseLinewise(ParseOrder[k], ps),
                  k + 1)


(***************************************************************************)
(* parseBlocks: the comment blocks of a file's text.                       *)
(***************************************************************************)
\* (.(?!\*\/)) at the token i of src: any character but a newline that the
\* close marker does not follow
BodyAt(src, i) == src[i] # NL /\ ~(i < Len(src) /\ src[i + 1] = CLOSE)

\* (^(.(?!\*\/))*\n): the newline that ends the line starting at token q, or
\* 0 when the line does not match
LineEnd(src, q) ==
  LET Nls == {i \in q..Len(src) : src[i] = NL}
  IN IF Nls # {} /\ \A i \in q..(Min(Nls) - 1) : BodyAt(src, i) THEN Min(Nls) ELSE 0

\* The newlines that end one, two, ... matching lines from token q on.
RECURSIVE LineEnds(_, _)
LineEnds(src, q) ==
  IF q > Len(src) \/ LineEnd(src, q) = 0 THEN {}
  ELSE {LineEnd(src, q)} \cup LineEnds(src, LineEnd(src, q) + 1)

\* [\n\s\t]*\*\/ from token q on: the close marker's token, or 0
CloseAfter(src, q) ==
  LET e == q + WsRun(SubstrFrom(src, q - 1))
  IN IF e <= Len(src) /\ src[e] = CLOSE THEN e ELSE 0

\* /\/\*\*\n(^(.(?!\*\/))*\n)+[\n\s\t]*\*\//gm at token p: the token the
\* match ends on, or 0.  The line group is greedy: the most lines after
\* which the close marker follows.
MultiEnd(src, p) ==
  IF p + 1 <= Len(src) /\ src[p] = OPEN /\ src[p + 1] = NL
  THEN LET Good == {e \in LineEnds(src, p + 2) : CloseAfter(src, e + 1) # 0}
       IN IF Good = {} THEN 0 ELSE CloseAfter(src, Max(Good) + 1)
  ELSE 0

\* src.match(/.../gm): the matches from token p on, each after the one before
RECURSIVE MultiBlocks(_, _)
MultiBlocks(src, p) ==
  IF p > Len(src) THEN <<>>
  ELSE IF MultiEnd(src, p) # 0
  THEN <<SubSeq(src, p, MultiEnd(src, p))>> \o MultiBlocks(src, MultiEnd(src, p) + 1)
  ELSE MultiBlocks(src, p + 1)

\* src.match(/\/\/\/(.*)/g): from each triple marker to the end of its line
RECURSIVE OneLineBlocks(_, _)
OneLineBlocks(src, p) ==
  IF p > Len(src) THEN <<>>
  ELSE IF src[p] = TRIPLE
  THEN LET Nls == {i \in p..Len(src) : src[i] = NL}
           e == IF Nls = {} THEN Len(src) ELSE Min(Nls) - 1
       IN <<SubSeq(src, p, e)>> \o OneLineBlocks(src, e + 1)
  ELSE OneLineBlocks(src, p + 1)

\* .replace(/\/\*\*[\n\t\r]*/,""): the first open marker and the newlines after it
RemoveOpen(t) ==
  LET At == {i \in 1..Len(t) : t[i] = OPEN}
      i == Min(At)
      Stop == {k \in (i + 1)..Len(t) : t[k] # NL}
      e == IF Stop = {} THEN Len(t) ELSE Min(Stop) - 1
  IN IF At = {} THEN t ELSE SubstrTo(t, i - 1) \o SubstrFrom(t, e)

\* .replace(/[\n\t\r]*\*\/$/,""): the close marker that ends the text and the
\* newlines before it
RemoveClose(t) ==
  LET Stop == {k \in 1..(Len(t) - 1) : t[k] # NL}
  IN IF Len(t) >= 1 /\ t[Len(t)] = CLOSE
     THEN SubstrTo(t, IF Stop = {} THEN 0 ELSE Max(Stop))
     ELSE t

\* lines[j].replace(/^[\s\t]*\*\s{0,1}/,""): a star after leading blanks goes
\* with one blank after it; the star may be a close marker's
StripStar(line) ==
  LET w == WsRun(line)
      r == SubstrFrom(line, w + 1)
  IN IF w < Len(line) /\ line[w + 1] = STAR
     THEN IF r # <<>> /\ IsWs(r[1]) THEN Tail(r) ELSE r
     ELSE IF w < Len(line) /\ line[w + 1] = CLOSE THEN <<"/">> \o r
     ELSE line

\* .replace(/[\n\s\t]*$/,"")
TrimEnd(t) ==
  LET Stop == {k \in 1..Len(t) : ~IsWs(t[k])}
  IN SubstrTo(t, IF Stop = {} THEN 0 ELSE Max(Stop))

CleanBlock(raw) ==
  LET lines == SplitLines(RemoveClose(RemoveOpen(raw)))
  IN TrimEnd(JoinLines([j \in 1..Len(lines) |-> StripStar(lines[j])]))

\* blockObjects.sort(function(b1,b2){ return b1.lineNumber - b2.lineNumber; }),
\* blocks of one line number keeping their order
RECURSIVE SortByLine(_)
SortByLine(bs) ==
  IF bs = <<>> THEN <<>>
  ELSE LET rest == SortByLine(SubSeq(bs, 1, Len(bs) - 1))
           x == bs[Len(bs)]
           Before == {k \in 1..Len(rest) : rest[k].lineNumber <= x.lineNumber}
           n == IF Before = {} THEN 0 ELSE Max(Before)
       IN SubstrTo(rest, n) \o <<x>> \o SubstrFrom(rest, n)

\* new DOCJS.Block(cleaned text, raw, lineNumber) for the matched text raw
NewBlock(src, file, raw, id) ==
  [Block(id, CleanBlock(raw), raw, CountNewlines(SubstrTo(src, IndexOf(src, raw))) + 1)
     EXCEPT !.filename = file]

\* blockObjects.push(block), after the parsers ran with the result ps
PushBlock(st, ps) ==
  [blocks |-> IF ps.thrown = "none" THEN Append(st.blocks, ps.block) ELSE st.blocks,
   errors |-> ps.errors,
   errorReportIdCounter |-> ps.errorReportIdCounter,
   blockIdCounter |-> st.blockIdCounter + 1,
   thrown |-> ps.thrown]

\* The loop of parseBlocks over the matched texts, from the i-th on; st holds
\* blockObjects, the errors array, the two id counters and the exception.
RECURSIVE ParseEach(_, _, _, _, _)
ParseEach(src, file, texts, i, st) ==
  IF i > Len(texts) \/ st.thrown # "none" THEN st
  ELSE ParseEach(src, file, texts, i + 1,
         PushBlock(st, RunParsers([block |-> NewBlock(src, file, texts[i],
                                                      st.blockIdCounter + 1),
                                   errors |-> st.errors,
                                   errorReportIdCounter |-> st.errorReportIdCounter,
                                   thrown |-> "none"], 1)))

SortBlocks(st) == [st EXCEPT !.blocks = IF st.thrown = "none" THEN SortByLine(@) ELSE @]

parseBlocks(src, file, errors, errorReportIdCounter, blockIdCounter) ==
  SortBlocks(ParseEach(src, file, MultiBlocks(src, 1) \o OneLineBlocks(src, 1), 1,
                       [blocks |-> <<>>, errors |-> errors,
                        errorReportIdCounter |-> errorReportIdCounter,
                        blockIdCounter |-> blockIdCounter, thrown |-> "none"]))


(***************************************************************************)
(* DOCJS.Entity and its subclasses.  Entities live in the array ents, at   *)
(* the index that is their globalId, and the Documentation's arrays and    *)
(* its name2class hold such indices: a ClassEntity that doc.classes and    *)
(* name2class both refer to is one object.  Every constructor calls        *)
(* DOCJS.Entity.call(this,block) without an entity name, so all entities   *)
(* count on the one counter entityCounter[undefined].  lines is no field   *)
(* of the program's entity: it is the set of the block's lines that a      *)
(* page's content was joined from.  Nor is entity: it is the argument that *)
(* setEntity was called with on a TodoEntity (0: undefined), which         *)
(* setEntity assigns to a variable that no function declares.              *)
(***************************************************************************)
Entity(ents, kind, block, name, className, extended, content) ==
  [kind |-> kind, id |-> Len(ents), globalId |-> Len(ents) + 1, block |-> block,
   name |-> name, className |-> className, extended |-> extended,
   content |-> content, methods |-> <<>>, properties |-> <<>>, lines |-> {},
   entity |-> 0]

Documentation ==
  [pages |-> <<>>, classes |-> <<>>, functions |-> <<>>, library |-> 0,
   todos |-> <<>>, errors |-> <<>>, methods |-> <<>>, properties |-> <<>>,
   name2class |-> <<>>, name2entity |-> <<>>]

\* a.getName() < b.getName() for names written with word letters: the
\* order of the letters' character codes
Letters == <<"A", "B", "C", "D", "L", "M", "P", "T", "V", "X", "a">>
Code(t) == IF \E i \in 1..Len(Letters) : Letters[i] = t
           THEN CHOOSE i \in 1..Len(Letters) : Letters[i] = t ELSE 0
RECURSIVE NameLess(_, _)
NameLess(a, b) ==
  IF b = <<>> THEN FALSE
  ELSE IF a = <<>> THEN TRUE
  ELSE IF Code(a[1]) # Code(b[1]) THEN Code(a[1]) < Code(b[1])
  ELSE NameLess(Tail(a), Tail(b))

\* SortByName putting an entity before the entities of its name
RECURSIVE SortByNameReversing(_, _)
SortByNameReversing(ents, ids) ==
  IF ids = <<>> THEN <<>>
  ELSE LET rest == SortByNameReversing(ents, SubSeq(ids, 1, Len(ids) - 1))
           x == ids[Len(ids)]
           Before == {k \in 1..Len(rest) : NameLess(ents[rest[k]].name, ents[x].name)}
           n == IF Before = {} THEN 0 ELSE Max(Before)
       IN SubstrTo(rest, n) \o <<x>> \o SubstrFrom(rest, n)

\* list.sort(sortbyname), entities of one name keeping their order
RECURSIVE SortByName(_, _)
SortByName(ents, ids) ==
  IF ids = <<>> THEN <<>>
  ELSE LET rest == SortByName(ents, SubSeq(ids, 1, Len(ids) - 1))
           x == ids[Len(ids)]
           Before == {k \in 1..Len(rest) : ~NameLess(ents[x].name, ents[rest[k]].name)}
           n == IF Before = {} THEN 0 ELSE Max(Before)
       IN SubstrTo(rest, n) \o <<x>> \o SubstrFrom(rest, n)

\* update keeping, of the classes of one name, the first in the array
updateFirstWins(doc, ents) ==
  LET Names == {ents[doc.classes[i]].name : i \in 1..Len(doc.classes)}
      First(n) == Min({i \in 1..Len(doc.classes) : ents[doc.classes[i]].name = n})
  IN [doc EXCEPT
        !.name2class = [n \in Names |-> doc.classes[First(n)]],
        !.name2entity = [n \in Names |-> doc.classes[First(n)]],
        !.pages = SortByName(ents, @),
        !.classes = SortByName(ents, @),
        !.functions = SortByName(ents, @)]

\* DOCJS.Documentation.update: name2class[n] = c for each class in array
\* order, a later class replacing an earlier one of its name; then the sorts
update(doc, ents) ==
  LET Names == {ents[doc.classes[i]].name : i \in 1..Len(doc.classes)}
      Last(n) == Max({i \in 1..Len(doc.classes) : ents[doc.classes[i]].name = n})
  IN [doc EXCEPT
        !.name2class = [n \in Names |-> doc.classes[Last(n)]],
        !.name2entity = [n \in Names |-> doc.classes[Last(n)]],
        !.pages = SortByName(ents, @),
        !.classes = SortByName(ents, @),
        !.functions = SortByName(ents, @)]

\* DOCJS.Documentation.nameToClass: the class's index in ents, or 0 for false
nameToClass(doc, name) ==
  IF name \in DOMAIN doc.name2class THEN doc.name2class[name] ELSE 0

\* DOCJS.Documentation.nameToEntity
nameToEntity(doc, name) ==
  IF name \in DOMAIN doc.name2entity THEN doc.name2entity[name] ELSE 0

\* c.getExtendedClassName()
getExtendedClassName(b) ==
  IF b.cmds["extends"] # <<>> THEN b.cmds["extends"][1].name ELSE False

(***************************************************************************)
(* makeEntities(blocks,errors).  Its loop state: the Documentation, the    *)
(* entities made so far, the blocks (which it marks and whose memberof     *)
(* arrays it extends), lastClass and the function-scoped variable entity   *)
(* (indices in ents, 0 while undefined) and errorReportIdCounter.          *)
(***************************************************************************)
PushError(ms, what, b, lineNumber, lines) ==
  [ms EXCEPT
     !.doc.errors = Append(@, [ErrorReport(ms.errorReportIdCounter + 1, b.filename,
                                           lineNumber, what, "", <<>>, b.id)
                                 EXCEPT !.lines = lines]),
     !.errorReportIdCounter = @ + 1]

\* entity = new DOCJS.<Kind>Entity([block], ...)
NewEntity(ms, e) == [ms EXCEPT !.ents = Append(@, e), !.entity = Len(ms.ents) + 1]

\* AssumeLastClass taking the first class of the documentation for the last
AssumeFirstClass(ms, i) ==
  LET b == ms.blocks[i]
  IN IF b.cmds["memberof"] = <<>> /\ ms.lastClass # 0
     THEN [ms EXCEPT !.blocks[i].cmds["memberof"] =
             <<Command("memberof", b.id, ms.ents[ms.doc.classes[1]].name, Undefined,
                       Undefined, {})>>]
     ELSE ms

\* the method and property branches: without a @memberof command the class
\* is taken to be the last one accepted
AssumeLastClass(ms, i) ==
  LET b == ms.blocks[i]
  IN IF b.cmds["memberof"] = <<>> /\ ms.lastClass # 0
     THEN [ms EXCEPT !.blocks[i].cmds["memberof"] =
             <<Command("memberof", b.id, ms.ents[ms.lastClass].name, Undefined, Undefined, {})>>]
     ELSE ms

\* PageBranch leaving the lines of the page's content unmarked
PageBranchUnmarked(ms, i) ==
  LET b == ms.blocks[i]
  IN [NewEntity(ms, [Entity(ms.ents, "page", b.id, b.cmds["page"][1].name, Undefined,
                            False, JoinLines(getUnparsedLines(b)))
                       EXCEPT !.lines = UnparsedKeys(b)])
        EXCEPT !.doc.pages = Append(@, Len(ms.ents) + 1)]

PageBranch(ms, i) ==
  LET b == ms.blocks[i]
      ks == Ascending(UnparsedKeys(b))
      m1 == [ms EXCEPT !.blocks[i] = MarkLines(b, ks)]
  IN [NewEntity(m1, [Entity(ms.ents, "page", b.id, b.cmds["page"][1].name, Undefined,
                            False, JoinLines(getUnparsedLines(b)))
                       EXCEPT !.lines = UnparsedKeys(b)])
        EXCEPT !.doc.pages = Append(@, Len(ms.ents) + 1)]

\* ClassBranch without the test for @return commands
ClassBranchAnyReturn(ms, i) ==
  LET b == ms.blocks[i]
      selfExt == b.cmds["extends"] # <<>>
                   /\ b.cmds["extends"][1].name = b.cmds["classs"][1].name
  IN IF selfExt THEN PushError(ms, "self-extend", b, b.lineNumber, <<>>)
     ELSE [NewEntity(ms, Entity(ms.ents, "class", b.id, b.cmds["classs"][1].name,
                                Undefined, getExtendedClassName(b), <<>>))
             EXCEPT !.doc.classes = Append(@, Len(ms.ents) + 1),
                    !.lastClass = Len(ms.ents) + 1]

\* ClassBranch without the test for a class that extends itself
ClassBranchAnyExtends(ms, i) ==
  LET b == ms.blocks[i]
  IN IF b.cmds["ret"] # <<>> THEN PushError(ms, "class-return", b, b.lineNumber, <<>>)
     ELSE [NewEntity(ms, Entity(ms.ents, "class", b.id, b.cmds["classs"][1].name,
                                Undefined, getExtendedClassName(b), <<>>))
             EXCEPT !.doc.classes = Append(@, Len(ms.ents) + 1),
                    !.lastClass = Len(ms.ents) + 1]

ClassBranch(ms, i) ==
  LET b == ms.blocks[i]
      hasRet == b.cmds["ret"] # <<>>
      selfExt == b.cmds["extends"] # <<>>
                   /\ b.cmds["extends"][1].name = b.cmds["classs"][1].name
      m1 == IF hasRet THEN PushError(ms, "class-return", b, b.lineNumber, <<>>) ELSE ms
      m2 == IF selfExt THEN PushError(m1, "self-extend", b, b.lineNumber, <<>>) ELSE m1
  IN IF hasRet \/ selfExt THEN m2
     ELSE [NewEntity(ms, Entity(ms.ents, "class", b.id, b.cmds["classs"][1].name,
                                Undefined, getExtendedClassName(b), <<>>))
             EXCEPT !.doc.classes = Append(@, Len(ms.ents) + 1),
                    !.lastClass = Len(ms.ents) + 1]

LibraryBranch(ms, i) ==
  LET b == ms.blocks[i]
  IN [NewEntity(ms, Entity(ms.ents, "library", b.id, b.cmds["library"][1].name,
                           Undefined, False, <<>>))
        EXCEPT !.doc.library = Len(ms.ents) + 1]

FunctionBranch(ms, i) ==
  LET b == ms.blocks[i]
  IN [NewEntity(ms, Entity(ms.ents, "function", b.id, b.cmds["func"][1].name,
                           Undefined, False, <<>>))
        EXCEPT !.doc.functions = Append(@, Len(ms.ents) + 1)]

\* MethodBranch reporting the method block that has no class to belong to
MethodBranchReporting(ms, i) ==
  LET m1 == AssumeLastClass(ms, i)
      b == m1.blocks[i]
  IN IF Len(b.cmds["memberof"]) = 1
     THEN [NewEntity(m1, Entity(ms.ents, "method", b.id, b.cmds["method"][1].name,
                                b.cmds["memberof"][1].name, False, <<>>))
             EXCEPT !.doc.methods = Append(@, Len(ms.ents) + 1)]
     ELSE PushError(m1, "method-noowner", b, b.lineNumber, <<>>)

MethodBranch(ms, i) ==
  LET m1 == AssumeLastClass(ms, i)
      b == m1.blocks[i]
  IN IF Len(b.cmds["memberof"]) = 1
     THEN [NewEntity(m1, Entity(ms.ents, "method", b.id, b.cmds["method"][1].name,
                                b.cmds["memberof"][1].name, False, <<>>))
             EXCEPT !.doc.methods = Append(@, Len(ms.ents) + 1)]
     ELSE m1

\* "... requires exactly 1 @memberof command, got "+block.memberof.length+"."
PushCountError(ms, b) ==
  [ms EXCEPT
     !.doc.errors = Append(@, [ErrorReport(ms.errorReportIdCounter + 1, b.filename,
                                           b.lineNumber, "property-memberof", "", <<>>, b.id)
                                 EXCEPT !.count = Len(b.cmds["memberof"])]),
     !.errorReportIdCounter = @ + 1]

\* PropertyBranch asking for at least one Memberof command
PropertyBranchAnyMemberof(ms, i) ==
  LET m1 == AssumeLastClass(ms, i)
      b == m1.blocks[i]
  IN IF Len(b.cmds["memberof"]) = 0
     THEN PushCountError(m1, b)
     ELSE [NewEntity(m1, Entity(ms.ents, "property", b.id, b.cmds["property"][1].name,
                                b.cmds["memberof"][1].name, False, <<>>))
             EXCEPT !.doc.properties = Append(@, Len(ms.ents) + 1)]

PropertyBranch(ms, i) ==
  LET m1 == AssumeLastClass(ms, i)
      b == m1.blocks[i]
  IN IF Len(b.cmds["memberof"]) # 1
     THEN PushCountError(m1, b)
     ELSE [NewEntity(m1, Entity(ms.ents, "property", b.id, b.cmds["property"][1].name,
                                b.cmds["memberof"][1].name, False, <<>>))
             EXCEPT !.doc.properties = Append(@, Len(ms.ents) + 1)]

\* TypeBranch testing for a Method command before it tests for a Class command
TypeBranchMethodFirst(ms, i) ==
  LET c == ms.blocks[i].cmds
  IN CASE c["page"] # <<>> -> PageBranch(ms, i)
       [] c["page"] = <<>> /\ c["method"] # <<>> -> MethodBranch(ms, i)
       [] c["page"] = <<>> /\ c["method"] = <<>> /\ c["classs"] # <<>> -> ClassBranch(ms, i)
       [] c["page"] = <<>> /\ c["method"] = <<>> /\ c["classs"] = <<>>
            /\ c["library"] # <<>> -> LibraryBranch(ms, i)
       [] c["page"] = <<>> /\ c["method"] = <<>> /\ c["classs"] = <<>>
            /\ c["library"] = <<>> /\ c["func"] # <<>> -> FunctionBranch(ms, i)
       [] c["page"] = <<>> /\ c["method"] = <<>> /\ c["classs"] = <<>>
            /\ c["library"] = <<>> /\ c["func"] = <<>> /\ c["property"] # <<>> ->
              PropertyBranch(ms, i)
       [] OTHER -> ms

\* the if / else-if chain that finds the block's type (block.file is never
\* filled, so its branch is never taken)
TypeBranch(ms, i) ==
  LET c == ms.blocks[i].cmds
  IN CASE c["page"] # <<>> -> PageBranch(ms, i)
       [] c["page"] = <<>> /\ c["classs"] # <<>> -> ClassBranch(ms, i)
       [] c["page"] = <<>> /\ c["classs"] = <<>> /\ c["library"] # <<>> -> LibraryBranch(ms, i)
       [] c["page"] = <<>> /\ c["classs"] = <<>> /\ c["library"] = <<>>
            /\ c["func"] # <<>> -> FunctionBranch(ms, i)
       [] c["page"] = <<>> /\ c["classs"] = <<>> /\ c["library"] = <<>>
            /\ c["func"] = <<>> /\ c["method"] # <<>> -> MethodBranch(ms, i)
       [] c["page"] = <<>> /\ c["classs"] = <<>> /\ c["library"] = <<>>
            /\ c["func"] = <<>> /\ c["method"] = <<>> /\ c["property"] # <<>> ->
              PropertyBranch(ms, i)
       [] OTHER -> ms

\* one TodoEntity for each @todo command of the block; setEntity assigns the
\* variable entity that no function declares, the global one
RECURSIVE Todos(_, _, _)
Todos(ms, i, j) ==
  LET b == ms.blocks[i]
  IN IF j > Len(b.cmds["todo"]) THEN ms
     ELSE Todos([ms EXCEPT
                   !.ents = Append(@, [Entity(ms.ents, "todo", b.id, Undefined, Undefined,
                                              False, b.cmds["todo"][j].text)
                                         EXCEPT !.entity = ms.entity]),
                   !.doc.todos = Append(@, Len(ms.ents) + 1),
                   !.globalEntity = ms.entity], i, j + 1)

\* the report of the block's lines that nothing consumed
Unparsed(ms, i) ==
  LET b == ms.blocks[i]
  IN IF getUnparsedLines2(b) # <<>>
     THEN PushError(ms, "unparsed", b, b.lineNumber, getUnparsedLines2(b))
     ELSE ms

RECURSIVE Assemble(_, _)
Assemble(ms, i) ==
  IF i > Len(ms.blocks) THEN ms
  ELSE Assemble(Unparsed(Todos(TypeBranch(ms, i), i, 1), i), i + 1)

\* AttachMethods reporting nothing for a method whose class is not found
RECURSIVE AttachMethodsSilent(_, _)
AttachMethodsSilent(ms, i) ==
  IF i > Len(ms.doc.methods) THEN ms
  ELSE LET m == ms.doc.methods[i]
           c == nameToClass(ms.doc, ms.ents[m].className)
       IN AttachMethodsSilent(
            IF c # 0 THEN [ms EXCEPT !.ents[c].methods = Append(@, m)] ELSE ms, i + 1)

\* the two loops that attach methods and properties to their classes; the
\* property report's line is p.block.lineNumber, and p.block is an array
RECURSIVE AttachMethods(_, _)
AttachMethods(ms, i) ==
  IF i > Len(ms.doc.methods) THEN ms
  ELSE LET m == ms.doc.methods[i]
           c == nameToClass(ms.doc, ms.ents[m].className)
       IN AttachMethods(
            IF c # 0 THEN [ms EXCEPT !.ents[c].methods = Append(@, m)]
            ELSE [ms EXCEPT
                    !.doc.errors = Append(@, [ErrorReport(ms.errorReportIdCounter + 1, 0, 1,
                                                          "method-noclass", "", <<>>, 0)
                                                EXCEPT !.entity = m]),
                    !.errorReportIdCounter = @ + 1],
            i + 1)

RECURSIVE AttachProperties(_, _)
AttachProperties(ms, i) ==
  IF i > Len(ms.doc.properties) THEN ms
  ELSE LET p == ms.doc.properties[i]
           c == nameToClass(ms.doc, ms.ents[p].className)
       IN AttachProperties(
            IF c # 0 THEN [ms EXCEPT !.ents[c].properties = Append(@, p)]
            ELSE [ms EXCEPT
                    !.doc.errors = Append(@, [ErrorReport(ms.errorReportIdCounter + 1, 0,
                                                          Undefined, "property-noclass",
                                                          "", <<>>, 0)
                                                EXCEPT !.entity = p]),
                    !.errorReportIdCounter = @ + 1],
            i + 1)

makeEntities(blocks, errors, errorReportIdCounter) ==
  LET ms == Assemble([doc |-> [Documentation EXCEPT !.errors = errors],
                      ents |-> <<>>, blocks |-> blocks, lastClass |-> 0,
                      entity |-> 0, globalEntity |-> 0,
                      errorReportIdCounter |-> errorReportIdCounter], 1)
      updated == [ms EXCEPT !.doc = update(ms.doc, ms.ents)]
  IN AttachProperties(AttachMethods(updated, 1), 1)

(***************************************************************************)
(* The sources a run is given.  A source is either the text of a file or   *)
(* NotFound, for a url the loader reports an error for.  The texts are     *)
(* built from comment blocks as they are written in a JavaScript file: a   *)
(* block of star-prefixed lines between the two markers, or a "///" line,  *)
(* with a line of code (K) between two blocks.  Names are words that are   *)
(* not empty and are no property of Object.prototype.                      *)
(***************************************************************************)
MaxBlocks == 3
MaxUrls == 2

NotFound == <<"#notfound">>

Star(line) == <<SP, STAR, SP>> \o line
Multi(lines) ==
  <<OPEN, NL>> \o JoinLines([i \in 1..Len(lines) |-> Star(lines[i])]) \o <<NL, SP, CLOSE>>
OneLine(line) == <<"K", SP, TRIPLE, SP>> \o line

RECURSIVE Source(_)
Source(bs) ==
  IF bs = <<>> THEN <<>>
  ELSE IF Len(bs) = 1 THEN bs[1]
  ELSE bs[1] \o <<NL, "K", NL>> \o Source(Tail(bs))

ClassA == Multi(<< <<"@class", SP, "A">> >>)
ClassBextendsA == Multi(<< <<"@class", SP, "B">>, <<"@extends", SP, "A">> >>)
ClassAextendsB == Multi(<< <<"@class", SP, "A">>, <<"@extends", SP, "B">> >>)
ClassAextendsA == Multi(<< <<"@class", SP, "A">>, <<"@extends", SP, "A">> >>)
ClassAreturn == Multi(<< <<"@class", SP, "A">>, <<"@return", SP, "T">> >>)
PageClass ==
  Multi(<< <<"@page", SP, "P">>, <<"@class", SP, "A">>, <<"@extends", SP, "A">>,
           <<"@return", SP, "T">> >>)
MethodM == Multi(<< <<"@method", SP, "M">> >>)
MethodMofC == Multi(<< <<"@method", SP, "M">>, <<"@memberof", SP, "C">> >>)
PropertyX == OneLine(<<"@property", SP, "T", SP, "X">>)
PropertyXofC == Multi(<< <<"@property", SP, "T", SP, "X">>, <<"@memberof", SP, "C">> >>)
LibraryL == Multi(<< <<"@library", SP, "L">>, <<"@version", SP, "V">> >>)
BriefAdescA == Multi(<< <<"@brief", SP, "A">>, <<"@desc", SP, "A">> >>)
ExampleOpen == Multi(<< <<"@example">>, <<"A">> >>)
ClassNoName == Multi(<< <<"@class">> >>)
TodoD == Multi(<< <<"@todo", SP, "D">>, <<"@todo", SP, "C">> >>)

BlockTexts ==
  {ClassA, ClassBextendsA, ClassAextendsB, ClassAextendsA, ClassAreturn, PageClass,
   MethodM, MethodMofC, PropertyX, PropertyXofC, LibraryL}

\* the texts of at most MaxBlocks blocks
Sources == {Source(bs) : bs \in UNION {[1..n -> BlockTexts] : n \in 0..MaxBlocks}}

\* the few texts the runs with several urls draw from
LoadSources ==
  {Source(<<ClassA>>), Source(<<ClassBextendsA, MethodM>>), Source(<<BriefAdescA>>),
   Source(<<ExampleOpen>>), Source(<<ClassA, TodoD>>),
   Source(<<ClassNoName>>)}

\* the blocks of the runs that look at the text of single blocks: classes
\* whose names differ in case, a block with the tags of two kinds, page text,
\* blanks at the end of a line, a description of two lines, a line no tag claims
MaxTextBlocks == 2

Classa == Multi(<< <<"@class", SP, "a">> >>)
ClassAmethodM == Multi(<< <<"@class", SP, "A">>, <<"@method", SP, "M">> >>)
PageProse ==
  Multi(<< <<"@page", SP, "B">>, <<"D", SP, "C">>, <<"@brief", SP, "B">>, <<"X">> >>)
FunctionB == Multi(<< <<"@function", SP, "B">> >>)
FunctionDmethodM ==
  Multi(<< <<"@function", SP, "D">>, <<"@method", SP, "M">>,
           <<"@property", SP, "T", SP, "X">> >>)
MethodMOfA == Multi(<< <<"@method", SP, "M">>, <<"@memberOf", SP, "A">> >>)
PropertyXofAB ==
  Multi(<< <<"@property", SP, "T", SP, "X">>, <<"@memberof", SP, "A">>,
           <<"@memberof", SP, "B">> >>)
BriefTrailing == Multi(<< <<"@brief", SP, "A", SP, "B", SP>>, <<"@author", SP, "C">> >>)
DescTwoLines == Multi(<< <<"@desc", SP, "A">>, <<"B">> >>)
Prose == Multi(<< <<"D">> >>)

TextBlocks ==
  {ClassA, Classa, ClassBextendsA, ClassAmethodM, PageClass, PageProse, FunctionB,
   FunctionDmethodM, MethodM, MethodMOfA, PropertyX, PropertyXofAB, PropertyXofC,
   BriefTrailing, DescTwoLines, Prose}

TextSources == {Source(bs) : bs \in UNION {[1..n -> TextBlocks] : n \in 0..MaxTextBlocks}}

(***************************************************************************)
(* The state of one call DOCJS.Generate(urls).                             *)
(*   files       what the loader will report for each url (1..N)           *)
(*   reported    the urls whose loader callback has fired                  *)
(*   numLoaded, errors, blocks   the variables of loadBlocks               *)
(*   blockIdCounter, errorReportIdCounter   the counters of Generate       *)
(*   calls       how often loadBlocks has invoked its completion callback  *)
(*   doc, ents   the Documentation makeEntities returned, and its entities *)
(*   thrown      the exceptions that loader callbacks have thrown          *)
(*   pc          where the body of Generate is: in its call of loadBlocks, *)
(*               returned after the definitions that follow that call, or  *)
(*               aborted by an exception                                   *)
(*   sync        whether options.fileLoader calls back inside load()       *)
(*   inh         the call of getInheritanceList in progress: its state,    *)
(*               the class asked for, the name the next call of            *)
(*               recurseInheritance receives, and the list                 *)
(***************************************************************************)
VARIABLES files, reported, numLoaded, errors, blocks, blockIdCounter,
          errorReportIdCounter, calls, doc, ents, thrown, inh, pc, sync

vars == <<files, reported, numLoaded, errors, blocks, blockIdCounter,
          errorReportIdCounter, calls, doc, ents, thrown, inh, pc, sync>>

\* the depth of recursion at which the engine's call stack is exhausted
StackLimit == 5

Idle == [state |-> "idle", class |-> 0, name |-> <<>>, list |-> <<>>]

Start ==
  /\ reported = {}
  /\ numLoaded = 0
  /\ errors = <<>>
  /\ blocks = <<>>
  /\ blockIdCounter = 0
  /\ errorReportIdCounter = 0
  /\ calls = 0
  /\ doc = Documentation
  /\ ents = <<>>
  /\ thrown = {}
  /\ inh = Idle
  /\ pc = "loadBlocks"

\* Generate with one url and the AjaxFileLoader
Init ==
  /\ files \in [1..1 -> Sources \cup {NotFound}]
  /\ sync = FALSE
  /\ Start

\* Generate with up to MaxUrls urls
InitLoad ==
  /\ files \in UNION {[1..n -> LoadSources \cup {NotFound}] : n \in 1..MaxUrls}
  /\ sync = FALSE
  /\ Start

\* Generate with one url, whose text is one of TextSources
InitText ==
  /\ files \in [1..1 -> TextSources \cup {NotFound}]
  /\ sync = FALSE
  /\ Start

\* Generate with any list of at most MaxUrls urls, the empty one too, and
\* either the AjaxFileLoader or a loader that calls back inside load()
InitSync ==
  /\ files \in UNION {[1..n -> LoadSources \cup {NotFound, Source(<<>>)}] : n \in 0..MaxUrls}
  /\ sync \in BOOLEAN
  /\ Start

\* callback(blocks,errors): the function Generate passes to loadBlocks
Callback(bs, errs, counter) ==
  \E ms \in {makeEntities(bs, errs, counter)} :
     /\ calls' = calls + 1
     /\ doc' = ms.doc
     /\ ents' = ms.ents
     /\ blocks' = ms.blocks
     /\ errorReportIdCounter' = ms.errorReportIdCounter

\* the loader's callback for url u, called with the file's text
LoadOk(u) ==
  /\ ~sync
  /\ pc = "returned"
  /\ u \notin reported
  /\ files[u] # NotFound
  /\ \E r \in {parseBlocks(files[u], u, errors, errorReportIdCounter, blockIdCounter)} :
        /\ reported' = reported \cup {u}
        /\ numLoaded' = numLoaded + 1
        /\ errors' = r.errors
        /\ blockIdCounter' = r.blockIdCounter
        /\ IF r.thrown # "none"
           THEN /\ thrown' = thrown \cup {[url |-> u, error |-> r.thrown]}
                /\ errorReportIdCounter' = r.errorReportIdCounter
                /\ UNCHANGED <<blocks, calls, doc, ents>>
           ELSE /\ thrown' = thrown
                /\ IF numLoaded + 1 = Len(files)
                   THEN Callback(r.blocks, r.errors, r.errorReportIdCounter)
                   ELSE /\ blocks' = r.blocks
                        /\ errorReportIdCounter' = r.errorReportIdCounter
                        /\ UNCHANGED <<calls, doc, ents>>
  /\ UNCHANGED <<files, inh, pc, sync>>

\* the loader's callback for url u, called with the loader's ErrorReport
LoadErr(u) ==
  /\ ~sync
  /\ pc = "returned"
  /\ u \notin reported
  /\ files[u] = NotFound
  /\ \E err \in {ErrorReport(errorReportIdCounter + 1, u, 0, "load", "", <<>>, 0)} :
        /\ reported' = reported \cup {u}
        /\ numLoaded' = numLoaded + 1
        /\ errors' = Append(errors, err)
        /\ IF numLoaded + 1 = Len(files)
           THEN Callback(blocks, Append(errors, err), errorReportIdCounter + 1)
           ELSE /\ errorReportIdCounter' = errorReportIdCounter + 1
                /\ UNCHANGED <<blocks, calls, doc, ents>>
  /\ UNCHANGED <<files, blockIdCounter, thrown, inh, pc, sync>>

\* the error value a loader that calls back inside load() passes for url u:
\* DOCJS.ErrorReport is not defined yet when it is made, so it takes no id
\* from errorReportIdCounter
LoaderError(u) == ErrorReport(0, u, 0, "load", "", <<>>, 0)

\* The loop of loadBlocks from url u on, when load() calls back before it
\* returns, in the first call of Generate on a page: the callbacks run in
\* the order of the urls, while DOCJS.Block and DOCJS.Documentation are
\* still undefined.  parseBlocks throws at new DOCJS.Block if the text has a
\* block, makeEntities throws at new DOCJS.Documentation, and the exception
\* leaves the callback, load(), the loop and Generate.
RECURSIVE SyncLoad(_, _)
SyncLoad(u, st) ==
  IF u > Len(files) \/ st.thrown # "none" THEN st
  ELSE IF files[u] = NotFound
  THEN SyncLoad(u + 1,
         [numLoaded |-> u, errors |-> Append(st.errors, LoaderError(u)),
          thrown |-> IF u = Len(files) THEN "TypeError: DOCJS.Documentation"
                     ELSE "none"])
  ELSE SyncLoad(u + 1,
         [numLoaded |-> u, errors |-> st.errors,
          thrown |-> IF MultiBlocks(files[u], 1) \o OneLineBlocks(files[u], 1) # <<>>
                     THEN "TypeError: DOCJS.Block"
                     ELSE IF u = Len(files) THEN "TypeError: DOCJS.Documentation"
                     ELSE "none"])

\* a loadBlocks that looks at numLoaded once more after its loop
GenerateCompleting ==
  /\ pc = "loadBlocks"
  /\ ~sync
  /\ pc' = "returned"
  /\ IF numLoaded = Len(files)
     THEN Callback(blocks, errors, errorReportIdCounter)
     ELSE UNCHANGED <<blocks, errorReportIdCounter, calls, doc, ents>>
  /\ UNCHANGED <<files, reported, numLoaded, errors, blockIdCounter, thrown, inh, sync>>

\* The body of DOCJS.Generate from its call of loadBlocks to its end.  The
\* AjaxFileLoader only sends the requests, and the definitions of Generate
\* follow; a loader that calls back inside load() runs every callback
\* before them.
Generate ==
  /\ pc = "loadBlocks"
  /\ IF sync
     THEN \E st \in {SyncLoad(1, [numLoaded |-> 0, errors |-> <<>>, thrown |-> "none"])} :
            /\ numLoaded' = st.numLoaded
            /\ reported' = 1..st.numLoaded
            /\ errors' = st.errors
            /\ thrown' = IF st.thrown = "none" THEN thrown
                         ELSE thrown \cup {[url |-> st.numLoaded, error |-> st.thrown]}
            /\ pc' = IF st.thrown = "none" THEN "returned" ELSE "aborted"
     ELSE /\ pc' = "returned"
          /\ UNCHANGED <<reported, numLoaded, errors, thrown>>
  /\ UNCHANGED <<files, blocks, blockIdCounter, errorReportIdCounter, calls, doc,
                 ents, inh, sync>>

\* doc.getInheritanceList(classs) up to its call of recurseInheritance
GetInheritanceList(i) ==
  /\ calls > 0
  /\ inh.state \in {"idle", "returned"}
  /\ i \in 1..Len(doc.classes)
  /\ inh' = [state |-> "running", class |-> doc.classes[i],
             name |-> ents[doc.classes[i]].name, list |-> <<>>]
  /\ UNCHANGED <<files, reported, numLoaded, errors, blocks, blockIdCounter,
                 errorReportIdCounter, calls, doc, ents, thrown, pc, sync>>

\* recurseInheritance returning after its first push
RecurseInheritanceOnce ==
  /\ inh.state = "running"
  /\ inh' = [inh EXCEPT !.state = "returned", !.list = Append(inh.list, inh.name)]
  /\ UNCHANGED <<files, reported, numLoaded, errors, blocks, blockIdCounter,
                 errorReportIdCounter, calls, doc, ents, thrown, pc, sync>>

\* one call of recurseInheritance(name,nameList)
RecurseInheritance ==
  /\ inh.state = "running"
  /\ LET c == nameToClass(doc, inh.name)
         list == Append(inh.list, inh.name)
     IN inh' = IF Len(inh.list) >= StackLimit THEN [inh EXCEPT !.state = "RangeError"]
               ELSE IF c = 0 THEN [inh EXCEPT !.state = "returned", !.list = list]
               ELSE IF ents[c].extended = False \/ ents[c].extended = <<>>
                    THEN [inh EXCEPT !.state = "returned", !.list = list]
               ELSE [inh EXCEPT !.name = ents[c].extended, !.list = list]
  /\ UNCHANGED <<files, reported, numLoaded, errors, blocks, blockIdCounter,
                 errorReportIdCounter, calls, doc, ents, thrown, pc, sync>>

Next ==
  \/ Generate
  \/ \E u \in DOMAIN files : LoadOk(u)
  \/ \E u \in DOMAIN files : LoadErr(u)
  \/ \E i \in 1..MaxBlocks : GetInheritanceList(i)
  \/ RecurseInheritance

Spec == Init /\ [][Next]_vars
SpecLoad == InitLoad /\ [][Next]_vars
SpecText == InitText /\ [][Next]_vars
SpecSync == InitSync /\ [][Next]_vars

(***************************************************************************)
(* The properties.                                                         *)
(***************************************************************************)
\* makeEntities has returned a Documentation
Built == calls > 0

\* the reports of one kind that makeEntities made about the block b
ReportsOf(b, what) ==
  {k \in 1..Len(doc.errors) : doc.errors[k].what = what /\ doc.errors[k].block = b.id}
\* the positions in doc.classes of the ClassEntity objects made from the block b
ClassesOf(b) == {k \in 1..Len(doc.classes) : ents[doc.classes[k]].block = b.id}
MethodsOf(b) == {k \in 1..Len(doc.methods) : ents[doc.methods[k]].block = b.id}

HasClassAndReturn(b) == b.cmds["classs"] # <<>> /\ b.cmds["ret"] # <<>>
ExtendsItself(b) ==
  /\ b.cmds["classs"] # <<>>
  /\ b.cmds["extends"] # <<>>
  /\ b.cmds["extends"][1].name = b.cmds["classs"][1].name

\* C1, as stated: for any block with a Class command and at least one Return
\* command, no ClassEntity of the block is in doc.classes and doc.errors holds
\* exactly one report of the @return violation of that block.
C1_AnyClassReturnBlock ==
  Built => \A i \in 1..Len(blocks) :
    HasClassAndReturn(blocks[i]) =>
      /\ ClassesOf(blocks[i]) = {}
      /\ Cardinality(ReportsOf(blocks[i], "class-return")) = 1

\* C1: for any block that has no Page command, has a Class command and at
\* least one Return command, no ClassEntity of the block is in doc.classes and
\* doc.errors holds exactly one "@class blocks may not contain @return" report
\* of that block.
C1_ClassReturnBlock ==
  Built => \A i \in 1..Len(blocks) :
    (blocks[i].cmds["page"] = <<>> /\ HasClassAndReturn(blocks[i])) =>
      /\ ClassesOf(blocks[i]) = {}
      /\ Cardinality(ReportsOf(blocks[i], "class-return")) = 1

C1_Witness ==
  /\ Built
  /\ \E i \in 1..Len(blocks) :
       /\ blocks[i].cmds["page"] = <<>>
       /\ HasClassAndReturn(blocks[i])
       /\ Cardinality(ReportsOf(blocks[i], "class-return")) = 1

\* C2, as stated: for any block whose first Extends command names the class
\* of its first Class command, no ClassEntity of the block is in doc.classes
\* and doc.errors holds one "A class may not extend itself!" report of it.
C2_AnySelfExtendingBlock ==
  Built => \A i \in 1..Len(blocks) :
    ExtendsItself(blocks[i]) =>
      /\ ClassesOf(blocks[i]) = {}
      /\ Cardinality(ReportsOf(blocks[i], "self-extend")) = 1

\* C2: for any block that has no Page command and whose first Extends command
\* names the class of its first Class command, no ClassEntity of the block is
\* in doc.classes and doc.errors holds one "A class may not extend itself!"
\* report of it.
C2_SelfExtendingBlock ==
  Built => \A i \in 1..Len(blocks) :
    (blocks[i].cmds["page"] = <<>> /\ ExtendsItself(blocks[i])) =>
      /\ ClassesOf(blocks[i]) = {}
      /\ Cardinality(ReportsOf(blocks[i], "self-extend")) = 1

C2_Witness ==
  /\ Built
  /\ \E i \in 1..Len(blocks) :
       /\ blocks[i].cmds["page"] = <<>>
       /\ ExtendsItself(blocks[i])
       /\ Cardinality(ReportsOf(blocks[i], "self-extend")) = 1

\* a block the type chain takes for a method block, and one whose text has no
\* @memberof command (the command the fallback adds comes from no line)
IsMethodBlock(b) ==
  /\ b.cmds["page"] = <<>> /\ b.cmds["classs"] = <<>> /\ b.cmds["library"] = <<>>
  /\ b.cmds["func"] = <<>> /\ b.cmds["method"] # <<>>
NoMemberofTag(b) ==
  \A k \in 1..Len(b.cmds["memberof"]) : b.cmds["memberof"][k].lines = {}
\* the class blocks before the i-th block that were accepted
AcceptedBefore(i) == {j \in 1..(i - 1) : ClassesOf(blocks[j]) # {}}

\* C3: a method block without a Memberof command that follows an accepted
\* class block yields exactly one MethodEntity, whose getClassName() is the
\* name of the last class block before it that was accepted, whatever blocks
\* (rejected class blocks included) lie between the two.
C3_MethodFallback ==
  Built => \A i \in 1..Len(blocks) :
    (IsMethodBlock(blocks[i]) /\ NoMemberofTag(blocks[i]) /\ AcceptedBefore(i) # {}) =>
      /\ Cardinality(MethodsOf(blocks[i])) = 1
      /\ \A k \in MethodsOf(blocks[i]) :
           ents[doc.methods[k]].className =
             blocks[Max(AcceptedBefore(i))].cmds["classs"][1].name

C3_Witness ==
  /\ Built
  /\ \E i \in 1..Len(blocks) : \E j \in AcceptedBefore(i) : \E k \in (j + 1)..(i - 1) :
       /\ IsMethodBlock(blocks[i]) /\ NoMemberofTag(blocks[i])
       /\ blocks[k].cmds["page"] = <<>> /\ blocks[k].cmds["classs"] # <<>>
       /\ ClassesOf(blocks[k]) = {}
       /\ blocks[k].cmds["classs"][1].name # blocks[j].cmds["classs"][1].name
       /\ \E m \in MethodsOf(blocks[i]) :
            ents[doc.methods[m]].className = blocks[j].cmds["classs"][1].name

\* how often x occurs in the sequence q
Count(q, x) == Cardinality({k \in 1..Len(q) : q[k] = x})
\* the "could not find that class" reports about the entity e
NotFoundReports(what, e) ==
  {k \in 1..Len(doc.errors) : doc.errors[k].what = what /\ doc.errors[k].entity = e}
\* the entities that are classes
Classes == {c \in 1..Len(ents) : ents[c].kind = "class"}

\* a source with a library block (and its version), a class block and a
\* method block without a Memberof command
LibraryClassMethod == Source(<<LibraryL, ClassA, MethodM>>)

\* C4: after makeEntities has returned, every MethodEntity of doc.methods is
\* either once in the method list of the class nameToClass returns for its
\* class name (and in no other list, with no report) or has exactly one
\* "class not found" report (and is in no list); the same for the properties.
\* A source with a library block, a class block and a following method block
\* without Memberof yields one class that has one method, of the method's name.
C4_Attached ==
  Built =>
    /\ \A k \in 1..Len(doc.methods) :
         LET m == doc.methods[k]
             c == nameToClass(doc, ents[m].className)
         IN /\ \A d \in Classes \ {c} : Count(ents[d].methods, m) = 0
            /\ IF c # 0
               THEN Count(ents[c].methods, m) = 1 /\ NotFoundReports("method-noclass", m) = {}
               ELSE Cardinality(NotFoundReports("method-noclass", m)) = 1
    /\ \A k \in 1..Len(doc.properties) :
         LET q == doc.properties[k]
             c == nameToClass(doc, ents[q].className)
         IN /\ \A d \in Classes \ {c} : Count(ents[d].properties, q) = 0
            /\ IF c # 0
               THEN /\ Count(ents[c].properties, q) = 1
                    /\ NotFoundReports("property-noclass", q) = {}
               ELSE Cardinality(NotFoundReports("property-noclass", q)) = 1
    /\ files = <<LibraryClassMethod>> =>
         /\ Len(doc.classes) = 1
         /\ Len(ents[doc.classes[1]].methods) = 1
         /\ ents[ents[doc.classes[1]].methods[1]].name = <<"M">>

C4_Witness ==
  /\ Built
  /\ \E k \in 1..Len(doc.methods) : \E c \in Classes :
       Count(ents[c].methods, doc.methods[k]) = 1
  /\ \E k \in 1..Len(doc.methods) :
       Cardinality(NotFoundReports("method-noclass", doc.methods[k])) = 1

C6_Terminates ==
  /\ inh.state # "RangeError"
  /\ Len(inh.list) <= Cardinality(DOMAIN doc.name2class) + 1

\* the lines of the block b that a command of b, or the content of b's page,
\* took its text from, and how often b's unparsed-code report lists a line
Users(b, l) ==
  {<<k, j>> \in Kinds \X (1..3) : j <= Len(b.cmds[k]) /\ l \in b.cmds[k][j].lines}
InPage(b, l) ==
  \E e \in 1..Len(ents) : ents[e].kind = "page" /\ ents[e].block = b.id /\ l \in ents[e].lines
Listed(b, l) ==
  Cardinality({<<k, j>> \in (1..Len(doc.errors)) \X (1..getNumLines(b)) :
                 /\ doc.errors[k].what = "unparsed" /\ doc.errors[k].block = b.id
                 /\ j <= Len(doc.errors[k].lines)
                 /\ doc.errors[k].lines[j].local = l})

\* C7: after parsing and assembling, every line of a block's cleaned text is
\* either marked consumed for exactly one command (or the page content) that
\* took its text from that line, and is not reported, or is unmarked, used by
\* no command and listed exactly once in the block's unparsed-code report.
C7_RoundTrip ==
  Built => \A i \in 1..Len(blocks) : \A l \in 0..(getNumLines(blocks[i]) - 1) :
    \/ /\ lineIsParsed(blocks[i], l)
       /\ Cardinality(Users(blocks[i], l)) + (IF InPage(blocks[i], l) THEN 1 ELSE 0) = 1
       /\ Listed(blocks[i], l) = 0
    \/ /\ ~lineIsParsed(blocks[i], l)
       /\ Users(blocks[i], l) = {}
       /\ ~InPage(blocks[i], l)
       /\ Listed(blocks[i], l) = 1

\* C8: no loader callback throws, whatever tags the loaded text holds: every
\* text that was reported has been parsed, and once all are in, assembled.
C8_NoThrow == thrown = {}

\* C9: the completion callback is invoked at most once, not before every
\* source has reported, and it has been invoked once every source has.
C9_CallbackOnce ==
  /\ calls <= 1
  /\ calls = 1 => reported = DOMAIN files
  /\ reported = DOMAIN files => calls = 1

\* the blocks that parseBlocks makes of the text of the url u, by their text
BlocksOfSource(u) ==
  LET bs == parseBlocks(files[u], u, <<>>, 0, 0).blocks
  IN [k \in 1..Len(bs) |-> bs[k].src]
IsFrom(b, u) == b.filename = u
FromSource(u) ==
  LET bs == SelectSeq(blocks, LAMBDA b : IsFrom(b, u))
  IN [k \in 1..Len(bs) |-> bs[k].src]

\* C10: the blocks passed to makeEntities hold, for every source that was
\* loaded and parsed, the blocks of that source in their order in the file.
C10_AllSources ==
  Built => \A u \in DOMAIN files :
    (files[u] # NotFound /\ \A t \in thrown : t.url # u) =>
      FromSource(u) = BlocksOfSource(u)

\* the names a Documentation lists, without the ids that number its objects
NamesOf(es, ids) == [k \in 1..Len(ids) |-> <<es[ids[k]].name, es[ids[k]].className>>]
View(d, es) ==
  [pages |-> NamesOf(es, d.pages), classes |-> NamesOf(es, d.classes),
   functions |-> NamesOf(es, d.functions), methods |-> NamesOf(es, d.methods),
   properties |-> NamesOf(es, d.properties),
   members |-> [k \in 1..Len(d.classes) |-> NamesOf(es, es[d.classes[k]].methods)]]
ViewOf(ms) == View(ms.doc, ms.ents)

\* the blocks of all the texts, file after file in the order of the urls
RECURSIVE InUrlOrder(_, _)
InUrlOrder(u, bs) ==
  IF u > Len(files) THEN bs
  ELSE IF files[u] = NotFound THEN InUrlOrder(u + 1, bs)
  ELSE InUrlOrder(u + 1, bs \o parseBlocks(files[u], u, <<>>, 0, Len(bs)).blocks)

\* C11: the Documentation of a list of sources does not depend on the order
\* in which the loads complete: when no callback threw, it lists the entities
\* that the blocks of all the sources, file after file and in their order in
\* the file, are assembled to, with the owners the fallback gives them there.
C11_OrderIndependent ==
  (Built /\ thrown = {}) =>
    View(doc, ents) = ViewOf(makeEntities(InUrlOrder(1, <<>>), <<>>, 0))

\* the command collections in the order the assembler tests them (the File
\* collection, third in that order, is empty in every block), and the kind of
\* entity each one stands for
Priority == <<"page", "classs", "library", "func", "method", "property">>
EntityKind(k) ==
  CASE k = "page" -> "page" [] k = "classs" -> "class" [] k = "library" -> "library"
    [] k = "func" -> "function" [] k = "method" -> "method" [] k = "property" -> "property"
FirstKind(b) ==
  Priority[Min({p \in 1..Len(Priority) : b.cmds[Priority[p]] # <<>>})]
\* the entities made from the block b, the TodoEntity objects aside
PrimaryOf(b) == {e \in 1..Len(ents) : ents[e].block = b.id /\ ents[e].kind # "todo"}

\* C12: a block yields at most one entity besides its todos, and that entity
\* is of the kind of the first non-empty command collection in the order
\* Page, Class, File, Library, Function, Method, Property: a block with a
\* Class and a Method command yields no MethodEntity, one with a Page and a
\* Class command no ClassEntity.
C12_FirstMatchOnly ==
  Built => \A i \in 1..Len(blocks) :
    /\ Cardinality(PrimaryOf(blocks[i])) <= 1
    /\ \A e \in PrimaryOf(blocks[i]) :
         /\ \E p \in 1..Len(Priority) : blocks[i].cmds[Priority[p]] # <<>>
         /\ ents[e].kind = EntityKind(FirstKind(blocks[i]))

C12_Witness ==
  /\ Built
  /\ \E i \in 1..Len(blocks) :
       /\ blocks[i].cmds["classs"] # <<>>
       /\ blocks[i].cmds["method"] # <<>>
       /\ blocks[i].cmds["page"] = <<>>
       /\ \E e \in PrimaryOf(blocks[i]) : ents[e].kind = "class"
  /\ \E i \in 1..Len(blocks) :
       /\ blocks[i].cmds["page"] # <<>>
       /\ blocks[i].cmds["classs"] # <<>>
       /\ \E e \in PrimaryOf(blocks[i]) : ents[e].kind = "page"

\* the lines of the block b that read "@brief", blanks, and a text
BriefLines(b) ==
  {l \in 0..(getNumLines(b) - 1) :
     /\ Len(getLine(b, l)) >= 3
     /\ getLine(b, l)[1] = "@brief"
     /\ IsWs(getLine(b, l)[2])
     /\ TrimEnd(SkipWs(Tail(getLine(b, l)))) # <<>>}
\* the text after the tag of the line, without the blanks around it
TextAfterTag(line) == TrimEnd(SkipWs(Tail(line)))

\* C13: a block with exactly one line "@brief some text" has exactly one
\* Brief command, whose content is the text after the tag with no whitespace
\* at its end, and the line is marked consumed.
C13_BriefContent ==
  Built => \A i \in 1..Len(blocks) : \A l \in BriefLines(blocks[i]) :
    BriefLines(blocks[i]) = {l} =>
      /\ Len(blocks[i].cmds["brief"]) = 1
      /\ blocks[i].cmds["brief"][1].text = TextAfterTag(getLine(blocks[i], l))
      /\ lineIsParsed(blocks[i], l)

\* the lines of the block b that read "@memberof X" or "@memberOf X"
MemberofLines(b) ==
  {l \in 0..(getNumLines(b) - 1) :
     /\ Len(getLine(b, l)) = 3
     /\ getLine(b, l)[1] \in {"@memberof", "@memberOf"}
     /\ getLine(b, l)[2] = SP
     /\ ~IsWs(getLine(b, l)[3]) /\ ~IsAt(getLine(b, l)[3])}
\* the Memberof commands of the block b that were made from its line l
MemberofFrom(b, l) == {k \in 1..Len(b.cmds["memberof"]) : b.cmds["memberof"][k].lines = {l}}
\* the members (methods and properties) of the class entity c made from b
MembersFrom(c, b) ==
  {k \in 1..Len(ents[c].methods) : ents[ents[c].methods[k]].block = b.id}
    \cup {k \in 1..Len(ents[c].properties) : ents[ents[c].properties[k]].block = b.id}

\* C14: a line "@memberof X" and a line "@memberOf X" each yield exactly one
\* Memberof command whose getClassName() is X and the line is marked
\* consumed; when it is the only such line of a method or property block and
\* a class X was accepted, the block's member is attached to that class.
C14_BothSpellings ==
  Built => \A i \in 1..Len(blocks) : \A l \in MemberofLines(blocks[i]) :
    /\ Cardinality(MemberofFrom(blocks[i], l)) = 1
    /\ \A k \in MemberofFrom(blocks[i], l) :
         blocks[i].cmds["memberof"][k].name = <<getLine(blocks[i], l)[3]>>
    /\ lineIsParsed(blocks[i], l)
    /\ ( /\ MemberofLines(blocks[i]) = {l}
         /\ PrimaryOf(blocks[i]) # {}
         /\ \A e \in PrimaryOf(blocks[i]) : ents[e].kind \in {"method", "property"}
         /\ nameToClass(doc, <<getLine(blocks[i], l)[3]>>) # 0 )
       => MembersFrom(nameToClass(doc, <<getLine(blocks[i], l)[3]>>), blocks[i]) # {}

\* where the cleaned text t has its first "@description" or "@desc" that blanks
\* follow, the text from there up to the next tag, and the lines it lies on
DescAt(t) == {p \in 1..(Len(t) - 1) : t[p] \in {"@description", "@desc"} /\ IsWs(t[p + 1])}
UpToTag(r) ==
  IF \E q \in 1..Len(r) : IsAt(r[q])
  THEN SubstrTo(r, Min({q \in 1..Len(r) : IsAt(r[q])}) - 1)
  ELSE r
DescText(t) == UpToTag(SkipWs(SubstrFrom(t, Min(DescAt(t)))))
DescLines(t) ==
  {CountNewlines(SubstrTo(t, Min(DescAt(t)))) + d :
     d \in 0..CountNewlines(TrimEnd(DescText(t)))}

\* C15: a block with "@description" or "@desc" followed by a text that runs
\* over further lines has exactly one Description command, whose content is
\* all the text up to the next tag (or the end of the block), continuation
\* lines included, and every line that text lies on is marked consumed.
C15_DescriptionSpans ==
  Built => \A i \in 1..Len(blocks) :
    (DescAt(blocks[i].src) # {} /\ TrimEnd(DescText(blocks[i].src)) # <<>>) =>
      /\ Len(blocks[i].cmds["desc"]) = 1
      /\ TrimEnd(blocks[i].cmds["desc"][1].text) = TrimEnd(DescText(blocks[i].src))
      /\ \A l \in DescLines(blocks[i].src) : lineIsParsed(blocks[i], l)

\* the names of the entities of a list are in ascending order of their
\* character codes (every capital letter before every small one)
SortedByName(ids) ==
  \A k \in 1..(Len(ids) - 1) : ~NameLess(ents[ids[k + 1]].name, ents[ids[k]].name)

\* C16: update can be called again on the Documentation makeEntities built
\* and changes nothing: the order of pages, classes and functions and what
\* nameToClass and nameToEntity return stay as they are; the three lists are
\* in ascending order of name, compared character code by character code.
C16_UpdateIdempotent ==
  Built =>
    /\ update(doc, ents) = doc
    /\ \A n \in DOMAIN doc.name2class \cup {<<"X">>} :
         /\ nameToClass(update(doc, ents), n) = nameToClass(doc, n)
         /\ nameToEntity(update(doc, ents), n) = nameToEntity(doc, n)
    /\ SortedByName(doc.pages)
    /\ SortedByName(doc.classes)
    /\ SortedByName(doc.functions)

\* a class with a small initial that was declared before one with a capital
\* initial and is listed after it
C16_Witness ==
  /\ Built
  /\ update(doc, ents) = doc
  /\ Len(doc.classes) = 2
  /\ ents[doc.classes[2]].name = <<"a">>
  /\ ents[doc.classes[2]].globalId < ents[doc.classes[1]].globalId

\* no line index is stored twice in the block's array of consumed lines
StoredOnce(b) ==
  \A j, k \in 1..Len(b.parsedLines) : b.parsedLines[j] = b.parsedLines[k] => j = k
\* the block c is the block b after more marking: what b stored is still
\* there, in place, and every line consumed in b is consumed in c
Grown(b, c) ==
  /\ Len(c.parsedLines) >= Len(b.parsedLines)
  /\ SubSeq(c.parsedLines, 1, Len(b.parsedLines)) = b.parsedLines
  /\ \A l \in 0..getNumLines(b) : lineIsParsed(b, l) => lineIsParsed(c, l)
\* the texts markChunkAsParsed can be given: runs of lines of the block
Chunks(b) ==
  {JoinLines(SubSeq(SplitLines(b.src), j, k)) : j, k \in 1..getNumLines(b)}

\* C17: the set of consumed lines only grows. In every block that parsing or
\* assembling has produced no line index is stored twice, and marking any
\* line, or any chunk, once more keeps every line consumed that was, makes
\* lineIsParsed true of the line marked, and stores no index a second time.
C17_ConsumedOnlyGrows ==
  \A i \in 1..Len(blocks) :
    /\ StoredOnce(blocks[i])
    /\ \A l \in 0..getNumLines(blocks[i]) :
         /\ Grown(blocks[i], markLineAsParsed(blocks[i], l))
         /\ lineIsParsed(markLineAsParsed(blocks[i], l), l)
         /\ StoredOnce(markLineAsParsed(blocks[i], l))
         /\ Grown(markLineAsParsed(blocks[i], l),
                  markLineAsParsed(markLineAsParsed(blocks[i], l), l))
    /\ \A c \in Chunks(blocks[i]) :
         /\ Grown(blocks[i], markChunkAsParsed(blocks[i], c))
         /\ StoredOnce(markChunkAsParsed(blocks[i], c))

\* a block with a consumed line, which marking leaves as it is, and a line
\* not yet consumed, which marking adds
C17_Witness ==
  \E i \in 1..Len(blocks) : \E l, m \in 0..(getNumLines(blocks[i]) - 1) :
    /\ lineIsParsed(blocks[i], l)
    /\ markLineAsParsed(blocks[i], l) = blocks[i]
    /\ ~lineIsParsed(blocks[i], m)
    /\ Len(markLineAsParsed(blocks[i], m).parsedLines) = Len(blocks[i].parsedLines) + 1

\* the line of the file that holds the line l of the cleaned text of b: in a
\* block between the two markers the opening marker has a line of its own,
\* and a "///" block is one line
LineInFile(b, l) == IF b.src[1] = TRIPLE THEN b.lineNumber ELSE b.lineNumber + 1 + l
\* the lines of b that nothing has consumed
Unconsumed(b) == {l \in 0..(getNumLines(b) - 1) : ~lineIsParsed(b, l)}

\* C18: a block with at least one line that nothing consumed has exactly one
\* unparsed-code report, which lists each such line once, in order, with the
\* number the line has in the file and its text; a block whose lines are all
\* consumed has none.
C18_UnparsedReport ==
  Built => \A i \in 1..Len(blocks) :
    IF Unconsumed(blocks[i]) = {} THEN ReportsOf(blocks[i], "unparsed") = {}
    ELSE /\ Cardinality(ReportsOf(blocks[i], "unparsed")) = 1
         /\ \A k \in ReportsOf(blocks[i], "unparsed") :
              /\ Len(doc.errors[k].lines) = Cardinality(Unconsumed(blocks[i]))
              /\ \A j \in 1..Len(doc.errors[k].lines) :
                   /\ doc.errors[k].lines[j].local = Ascending(Unconsumed(blocks[i]))[j]
                   /\ doc.errors[k].lines[j].text =
                        getLine(blocks[i], doc.errors[k].lines[j].local)
                   /\ doc.errors[k].lines[j].n =
                        LineInFile(blocks[i], doc.errors[k].lines[j].local)

\* the i-th block of the one text of the run as parseBlocks returns it, before
\* makeEntities has seen it
Parsed(i) == parseBlocks(files[1], 1, <<>>, 0, 0).blocks[i]
\* the PageEntity objects made from the block b
PagesOf(b) == {k \in 1..Len(doc.pages) : ents[doc.pages[k]].block = b.id}

\* C19: a block with a Page command yields exactly one PageEntity, named by
\* the block's first Page command, whose content is the lines no parser had
\* consumed, in order and joined by newlines; all lines of the block are then
\* consumed, and the block has no unparsed-code report.
C19_PageContent ==
  Built => \A i \in 1..Len(blocks) :
    blocks[i].cmds["page"] # <<>> =>
      /\ Cardinality(PagesOf(blocks[i])) = 1
      /\ PrimaryOf(blocks[i]) = {doc.pages[k] : k \in PagesOf(blocks[i])}
      /\ \A k \in PagesOf(blocks[i]) :
           /\ ents[doc.pages[k]].name = blocks[i].cmds["page"][1].name
           /\ ents[doc.pages[k]].content = JoinLines(getUnparsedLines(Parsed(i)))
      /\ Unconsumed(blocks[i]) = {}
      /\ ReportsOf(blocks[i], "unparsed") = {}

\* a page block with a line a parser consumed between two lines of content
C19_Witness ==
  /\ Built
  /\ \E i \in 1..Len(blocks) : \E k \in PagesOf(blocks[i]) :
       /\ ents[doc.pages[k]].content = <<"D", SP, "C", NL, "X">>
       /\ blocks[i].cmds["brief"] # <<>>
       /\ Unconsumed(Parsed(i)) = {1, 3}
       /\ Unconsumed(blocks[i]) = {}

\* a block the type chain takes for a property block, and the PropertyEntity
\* objects made from it
IsPropertyBlock(b) ==
  /\ \E p \in 1..Len(Priority) : b.cmds[Priority[p]] # <<>>
  /\ FirstKind(b) = "property"
PropertiesOf(b) == {k \in 1..Len(doc.properties) : ents[doc.properties[k]].block = b.id}

\* C20: a property block that, after the fallback to the last accepted
\* class, has a number of Memberof commands other than 1 yields exactly one
\* report, which cites that number, and no PropertyEntity; one that has
\* exactly 1 yields exactly one PropertyEntity and no such report.
C20_PropertyMemberof ==
  Built => \A i \in 1..Len(blocks) :
    IsPropertyBlock(blocks[i]) =>
      IF Len(blocks[i].cmds["memberof"]) # 1
      THEN /\ Cardinality(ReportsOf(blocks[i], "property-memberof")) = 1
           /\ \A k \in ReportsOf(blocks[i], "property-memberof") :
                doc.errors[k].count = Len(blocks[i].cmds["memberof"])
           /\ PropertiesOf(blocks[i]) = {}
      ELSE /\ Cardinality(PropertiesOf(blocks[i])) = 1
           /\ ReportsOf(blocks[i], "property-memberof") = {}

\* a property block with two Memberof commands and the report that cites
\* them, next to a property block with one Memberof command and its entity
C20_Witness ==
  /\ Built
  /\ \E i \in 1..Len(blocks) : \E k \in ReportsOf(blocks[i], "property-memberof") :
       /\ IsPropertyBlock(blocks[i])
       /\ Len(blocks[i].cmds["memberof"]) = 2
       /\ doc.errors[k].count = 2
  /\ \E i \in 1..Len(blocks) :
       /\ IsPropertyBlock(blocks[i])
       /\ Len(blocks[i].cmds["memberof"]) = 1
       /\ Cardinality(PropertiesOf(blocks[i])) = 1

\* the reports about the block b, or about an entity made from it, that are
\* neither a parser's report of a malformed tag nor the unparsed-code report
StructuralOf(b) ==
  {k \in 1..Len(doc.errors) :
     \/ /\ doc.errors[k].block = b.id
        /\ doc.errors[k].what \notin {"malformed", "unparsed"}
     \/ /\ doc.errors[k].entity # 0
        /\ ents[doc.errors[k].entity].block = b.id}

\* C21: a method block without a Memberof command that no accepted class
\* block precedes gets no Memberof command from the fallback, yields no
\* MethodEntity (no entity at all), and no report about a missing owner or
\* any other structural report is made for it.
C21_SilentDrop ==
  Built => \A i \in 1..Len(blocks) :
    (IsMethodBlock(blocks[i]) /\ NoMemberofTag(blocks[i]) /\ AcceptedBefore(i) = {}) =>
      /\ blocks[i].cmds["memberof"] = <<>>
      /\ MethodsOf(blocks[i]) = {}
      /\ PrimaryOf(blocks[i]) = {}
      /\ StructuralOf(blocks[i]) = {}

\* such a method block, dropped, with an accepted class block after it
C21_Witness ==
  /\ Built
  /\ \E i \in 1..Len(blocks) :
       /\ IsMethodBlock(blocks[i]) /\ NoMemberofTag(blocks[i]) /\ AcceptedBefore(i) = {}
       /\ MethodsOf(blocks[i]) = {}
       /\ \E j \in (i + 1)..Len(blocks) : ClassesOf(blocks[j]) # {}

\* the TodoEntity objects made from the block b
TodosOf(b) == {k \in 1..Len(doc.todos) : ents[doc.todos[k]].block = b.id}

\* C22: each Todo command of a block yields exactly one TodoEntity in
\* doc.todos, and the entity that TodoEntity is given by setEntity is the
\* primary entity made from the same block, or none when the block yielded
\* no primary entity: never an entity made from an earlier block.
C22_TodoLinked ==
  Built => \A i \in 1..Len(blocks) :
    /\ Cardinality(TodosOf(blocks[i])) = Len(blocks[i].cmds["todo"])
    /\ \A k \in TodosOf(blocks[i]) :
         IF PrimaryOf(blocks[i]) = {} THEN ents[doc.todos[k]].entity = 0
         ELSE ents[doc.todos[k]].entity \in PrimaryOf(blocks[i])

\* the names of one letter, and the accepted classes of the name n (an
\* entity's index in ents grows with the position of its block)
OneLetterNames == {<<Letters[k]>> : k \in 1..Len(Letters)}
AcceptedNamed(n) ==
  {doc.classes[k] : k \in {j \in 1..Len(doc.classes) : ents[doc.classes[j]].name = n}}
LastNamed(n) == IF AcceptedNamed(n) = {} THEN 0 ELSE Max(AcceptedNamed(n))

LinewiseKinds == Kinds \ {"desc", "example"}
KindOfTag(t) == CHOOSE k \in Kinds : t \in MatchTags(k)
TagLines(b) ==
  {l \in 0..(getNumLines(b) - 1) :
     /\ getLine(b, l) # <<>>
     /\ IsAt(getLine(b, l)[1])
     /\ getLine(b, l)[1] # "@endexample"
     /\ KindOfTag(getLine(b, l)[1]) \in LinewiseKinds
     /\ \A p \in 2..Len(getLine(b, l)) : ~IsAt(getLine(b, l)[p])}
\* the commands of the kind k that b has from its line l, and the reports
\* that the parser of k made about that line
CommandsFrom(b, k, l) == {c \in 1..Len(b.cmds[k]) : b.cmds[k][c].lines = {l}}
MalformedAt(b, k, l) ==
  {e \in 1..Len(doc.errors) :
     /\ doc.errors[e].what = "malformed" /\ doc.errors[e].block = b.id
     /\ doc.errors[e].tag = k /\ doc.errors[e].text = getLine(b, l)}

\* C24: for every parser that reads single lines: a line with the parser's
\* keyword that does not match its grammar gets exactly one report, with
\* the block's file name, the number the line has in the file and the line's
\* text, yields no command and is left unconsumed (until a page takes it as
\* content); a line that matches yields exactly one command, is marked
\* consumed and gets no report.
C24_LinewiseParsers ==
  Built => \A i \in 1..Len(blocks) : \A l \in TagLines(blocks[i]) :
    \E k \in {KindOfTag(getLine(blocks[i], l)[1])} :
      IF MatchLine(k, getLine(blocks[i], l)).ok
      THEN /\ Cardinality(CommandsFrom(blocks[i], k, l)) = 1
           /\ lineIsParsed(blocks[i], l)
           /\ MalformedAt(blocks[i], k, l) = {}
      ELSE /\ CommandsFrom(blocks[i], k, l) = {}
           /\ blocks[i].cmds["page"] = <<>> => ~lineIsParsed(blocks[i], l)
           /\ Cardinality(MalformedAt(blocks[i], k, l)) = 1
           /\ \A e \in MalformedAt(blocks[i], k, l) :
                /\ doc.errors[e].file = blocks[i].filename
                /\ doc.errors[e].lineNumber = LineInFile(blocks[i], l)

\* where the comment blocks of the text t start: at its opening markers and
\* its triple markers, in the order of the text
BlockStarts(t) == Ascending({p \in 1..Len(t) : t[p] \in {OPEN, TRIPLE}})
\* the line of the text t that the position p lies on
LineOf(t, p) == CountNewlines(SubstrTo(t, p - 1)) + 1

\* C25: the blocks of a file are in the order of their positions in the
\* file, and each block's lineNumber is the line its own opening marker is
\* on, also when two blocks of the file have the same text and when blocks of
\* both forms are mixed.
C25_BlockLines ==
  (Built /\ files[1] # NotFound) =>
    /\ Len(blocks) = Len(BlockStarts(files[1]))
    /\ \A k \in 1..Len(blocks) :
         blocks[k].lineNumber = LineOf(files[1], BlockStarts(files[1])[k])

\* the number of newlines of the raw text of b before its cleaned text
\* starts: the line of the opening marker in a block between the two
\* markers, none in a "///" block
NewlinesBefore(b) == IF b.src[1] = TRIPLE THEN 0 ELSE 1

\* C26: in every block rawDiff is the number of newlines of the raw text
\* that precede the start of the cleaned text, whether the cleaned text has
\* one line or several; localToGlobalLineNumber(i) is i + lineNumber +
\* rawDiff + 1; and marking a chunk consumes the lines the chunk lies on, as
\* marking a line does.
C26_RawDiff ==
  \A i \in 1..Len(blocks) :
    /\ blocks[i].rawDiff = NewlinesBefore(blocks[i])
    /\ \A l \in 0..(getNumLines(blocks[i]) - 1) :
         /\ localToGlobalLineNumber(blocks[i], l)
              = l + blocks[i].lineNumber + blocks[i].rawDiff + 1
         /\ lineIsParsed(markChunkAsParsed(blocks[i], getLine(blocks[i], l)),
                         getLineNumber(blocks[i], getLine(blocks[i], l)))

\* the entities of the kind of the entity e that were constructed before it
EarlierOfKind(e) == {d \in 1..(e - 1) : ents[d].kind = ents[e].kind}

\* C27: every entity's globalId is greater than the globalId of every entity
\* constructed before it, and its id comes from a counter of its own kind:
\* the ids of the entities of one kind count up from 0 one by one, whatever
\* entities of other kinds are constructed in between.
C27_EntityIds ==
  \A e \in 1..Len(ents) :
    /\ \A d \in 1..(e - 1) : ents[d].globalId < ents[e].globalId
    /\ ents[e].id = Cardinality(EarlierOfKind(e))

\* the block b got its one Memberof command from the fallback, and made a
\* method or a property of it
ByFallback(b) ==
  /\ Len(b.cmds["memberof"]) = 1
  /\ b.cmds["memberof"][1].lines = {}
  /\ \E e \in PrimaryOf(b) : ents[e].kind \in {"method", "property"}
\* the class entities that list the entity e as a method or a property
OwnersOf(e) ==
  {c \in 1..Len(ents) :
     \/ \E k \in 1..Len(ents[c].methods) : ents[c].methods[k] = e
     \/ \E k \in 1..Len(ents[c].properties) : ents[c].properties[k] = e}
\* the ClassEntity that was the last accepted one when the i-th block was read
LastClassAt(i) == {e \in 1..Len(ents) :
                     ents[e].kind = "class" /\ ents[e].block = blocks[Max(AcceptedBefore(i))].id}

\* C28: a method or property that the fallback gave its class is, after the
\* post-pass, a member of the very ClassEntity that was the last accepted
\* one when its block was read, and of no other, also when a class block
\* elsewhere in the input declares the same name.
C28_FallbackOwner ==
  Built => \A i \in 1..Len(blocks) :
    ByFallback(blocks[i]) =>
      \A e \in PrimaryOf(blocks[i]) : OwnersOf(e) = LastClassAt(i)

\* parseBlocks has been called with the text of a file
ParseBlocksRan == \E u \in reported : files[u] # NotFound
\* makeEntities has been called: it returned, or it threw
MakeEntitiesRan == calls > 0 \/ \E t \in thrown : t.error = "TypeError: DOCJS.Documentation"

\* C29: whenever parseBlocks or makeEntities has run, the body of Generate
\* had reached its end before, so that the constructors Block, ErrorReport,
\* Entity and Documentation and the id counters were set; this holds for
\* a loader that calls back later and for one that calls back inside load().
C29_AfterDefinitions == (ParseBlocksRan \/ MakeEntitiesRan) => pc = "returned"

\* C30: Generate with an empty list of urls never invokes the completion
\* callback: makeEntities does not run and no Documentation is rendered.
C30_EmptyNeverCompletes ==
  Len(files) = 0 => (calls = 0 /\ doc = Documentation /\ ents = <<>> /\ ~MakeEntitiesRan)
C30_Witness == Len(files) = 0 /\ pc = "returned"

====
